---------------------------- MODULE Spec2Model ----------------------------
(***************************************************************************)
(* A model of the command framework of pyer-libs:                          *)
(*   - libs/command/command.py : class Command (construction, argument     *)
(*     registration, recursive dispatch, run with logging set-up)          *)
(*   - libs/command/__init__.py : run(entryPointsNamespace)                *)
(*                                                                         *)
(* Specifications:                                                         *)
(*   Spec       Command.run called repeatedly in one process on a command  *)
(*              tree: parsing, logging set-up, dispatch, tear-down.        *)
(*   SpecBuild  construction of command trees (children before parents).   *)
(*   SpecPlugin run(entryPointsNamespace): the entry point loading loop.   *)
(*   SpecDoc    Command.__init__'s docstring to help text conversion.      *)
(***************************************************************************)
EXTENDS Integers, Sequences, FiniteSets, Bags, TLC

VARIABLES
    \* ---- Spec: one process, Command.run called on the tree `cmds`
    cmds,        \* the constructed Command objects; the root is the last one
    level,       \* logging: Logger -> level name (process wide)
    handlers,    \* logging: Logger -> sequence of handlers (process wide)
    runs,        \* number of Command.run calls started so far
    pc,          \* "idle" (no run call active) or "dispatch"
    args,        \* the argparse namespace of the active run call
    stack,       \* the active _runCommand frames, root first
    ret,         \* what the innermost finished frame returned or raised
    invoked,     \* the commands whose runCommand was invoked, in order
    errors,      \* the logger.error calls of this run call
    printed,     \* what io.print wrote during this run call
    result,      \* how the last run call ended
    words,       \* the positional words the active/last run call parsed
    last,        \* the most recent runCommand call: its command and outcome
    preHandlers, \* `handlers` as it was when the active/last call started
    \* ---- SpecBuild
    built,       \* the Command objects constructed so far
    \* ---- SpecPlugin
    plug,        \* the state of run(entryPointsNamespace)
    \* ---- SpecDoc
    doc          \* the state of one Command.__init__ call deriving help text

runVars == <<cmds, level, handlers, runs, pc, args, stack, ret, invoked,
             errors, printed, result, words, last, preHandlers>>
vars == <<runVars, built, plug, doc>>

-----------------------------------------------------------------------------
(* Bounds and input sets                                                   *)

MaxRuns == 2          \* Command.run calls per behaviour
MaxArgs == 2          \* positional words on the command line
MaxVerbose == 5       \* number of -v flags given (the code tests >= 5)

Names == {"a", "b", "c", "r"}          \* command names
Loggers == {"root", "libs", "plug", "other"}   \* logging namespaces; "root" is the root logger

\* Values of a sub-command destination in the argparse namespace.
None == "<None>"
Absent == "<absent>"

RECURSIVE SeqsUpTo(_, _)
SeqsUpTo(S, n) ==
    IF n = 0 THEN {<<>>}
    ELSE LET shorter == SeqsUpTo(S, n - 1)
         IN shorter \cup {Append(s, x) : s \in {t \in shorter : Len(t) = n - 1}, x \in S}

RECURSIVE Repeat(_, _)
Repeat(x, n) == IF n = 0 THEN <<>> ELSE <<x>> \o Repeat(x, n - 1)

-----------------------------------------------------------------------------
(* Command.__init__: the part after the help text (lines 144-180)          *)

\* self._logModules = list(set(self._logModules + subCommand._logModules)):
\* a list is modelled by the bag of its elements.
MergeLogModulesNoSet(mine, theirs) == mine (+) theirs
MergeLogModules(mine, theirs) == SetToBag(BagToSet(mine (+) theirs))

RECURSIVE BubbleLogModules(_, _, _)
BubbleLogModules(mine, subs, objs) ==
    IF subs = <<>> THEN mine
    ELSE BubbleLogModules(MergeLogModules(mine, objs[Head(subs)].logModules),
                          Tail(subs), objs)

\* The object Command(name, subCommands = subs) creates, in a class defined in
\* a module of top-level package `package`; `objs` holds the existing objects.
NewCommand(objs, name, package, subs) ==
    [name        |-> name,
     package     |-> package,
     subCommands |-> subs,
     logModules  |-> BubbleLogModules(SetToBag({package}), subs, objs)]

RECURSIVE BuildAll(_, _)
BuildAll(objs, recipe) ==
    IF recipe = <<>> THEN objs
    ELSE BuildAll(Append(objs, NewCommand(objs, recipe[1][1], recipe[1][2], recipe[1][3])),
                  Tail(recipe))

\* The command trees Command.run is exercised on. Each is written in
\* construction order (children first); the root is the last object.
\* Names are unique among direct siblings in every tree.
Trees ==
    { BuildAll(<<>>, r) : r \in {
        \* a root without sub-commands
        << <<"r", "libs", <<>>>> >>,
        \* r -> {a, b}
        << <<"a", "plug", <<>>>>, <<"b", "plug", <<>>>>, <<"r", "libs", <<1, 2>>>> >>,
        \* r -> {b -> {a}, a}: a name reused at another level
        << <<"a", "plug", <<>>>>, <<"b", "plug", <<1>>>>, <<"a", "libs", <<>>>>,
           <<"r", "libs", <<2, 3>>>> >>,
        \* a -> {a -> {b}}: a name reused by an ancestor and its descendant
        << <<"b", "plug", <<>>>>, <<"a", "plug", <<1>>>>, <<"a", "libs", <<2>>>> >>,
        \* a -> {a -> {b}, b -> {c}}
        << <<"b", "plug", <<>>>>, <<"a", "plug", <<1>>>>, <<"c", "plug", <<>>>>,
           <<"b", "plug", <<3>>>>, <<"a", "libs", <<2, 4>>>> >> } }

Root(objs) == Len(objs)

SiblingsUnique(objs) ==
    \A n \in 1..Len(objs) :
        \A i, j \in 1..Len(objs[n].subCommands) :
            i # j => objs[objs[n].subCommands[i]].name # objs[objs[n].subCommands[j]].name

-----------------------------------------------------------------------------
(* argparse: the grammar Command._addArguments registers (lines 233-295)   *)
(* and what parse_args yields for it (line 397)                            *)

\* dest = f"_{self._name}SubCommandName": the destination of a command's
\* sub-command choice is keyed by the command's own name alone.
Dest(c) == c.name

EmptyNamespace == [k \in Names |-> Absent]

\* A sub-parser's namespace is copied onto its parent's, attribute by attribute.
MergeNamespace(ns, sub) == [k \in Names |-> IF sub[k] # Absent THEN sub[k] ELSE ns[k]]

\* The index in `subs` of the sub-parser registered under `word`, 0 if none.
SubParserFor(objs, subs, word) ==
    LET hits == {i \in 1..Len(subs) : objs[subs[i]].name = word}
    IN IF hits = {} THEN 0 ELSE CHOOSE i \in hits : \A j \in hits : i <= j

\* parse_known_args of command n's parser on the words argv, into a fresh
\* namespace. ok = FALSE when argparse rejects the words (it exits).
RECURSIVE ParseArgs(_, _, _)
ParseArgs(objs, n, argv) ==
    LET c == objs[n]
        subs == c.subCommands
    IN  IF Len(subs) < 1
        THEN [ok |-> argv = <<>>, ns |-> EmptyNamespace]
        ELSE LET defaults == [EmptyNamespace EXCEPT ![Dest(c)] = None]
             IN  IF argv = <<>>
                 THEN [ok |-> TRUE, ns |-> defaults]
                 ELSE LET i == SubParserFor(objs, subs, Head(argv))
                      IN  IF i = 0
                          THEN [ok |-> FALSE, ns |-> defaults]
                          ELSE LET sub == ParseArgs(objs, subs[i], Tail(argv))
                               IN  [ok |-> sub.ok,
                                    ns |-> MergeNamespace(
                                              [defaults EXCEPT ![Dest(c)] = Head(argv)],
                                              sub.ns)]

\* The commands the words argv select, root first (the parser's own path).
RECURSIVE ParsePath(_, _, _)
ParsePath(objs, n, argv) ==
    LET subs == objs[n].subCommands
        i == IF argv = <<>> THEN 0 ELSE SubParserFor(objs, subs, Head(argv))
    IN  IF i = 0 THEN <<n>> ELSE <<n>> \o ParsePath(objs, subs[i], Tail(argv))

-----------------------------------------------------------------------------
(* logging: levels, handlers, and what logger.error does                   *)

LevelNo == [NOTSET |-> 0, DEBUG |-> 10, INFO |-> 20, WARNING |-> 30,
            ERROR |-> 40, CRITICAL |-> 50]

\* Logger.getEffectiveLevel: the first level set on the way up to the root.
EffectiveLevel(lv, l) ==
    IF lv[l] # "NOTSET" \/ l = "root" THEN lv[l] ELSE lv["root"]

\* The level Command.run sets for a verbosity count (lines 421-430).
VerbosityLevel(v) ==
    IF v >= 4 THEN "DEBUG"
    ELSE IF v >= 3 THEN "INFO"
    ELSE IF v >= 2 THEN "WARNING"
    ELSE IF v >= 1 THEN "ERROR"
    ELSE "CRITICAL"

RECURSIVE SeqToBag(_)
SeqToBag(s) == IF s = <<>> THEN EmptyBag ELSE SetToBag({Head(s)}) (+) SeqToBag(Tail(s))

\* args.logger as Command.run leaves it before configuring (lines 403-417):
\* the loggers to configure, as a bag (a logger named twice is configured twice).
OurModule == "libs"
SelectLoggers(root, verbose, loggerArgs) ==
    IF verbose >= 5 THEN SetToBag({"root"})
    ELSE IF Len(loggerArgs) < 1
         THEN SetToBag({OurModule} \cup BagToSet(root.logModules))
         ELSE SeqToBag(loggerArgs)

\* Lines 419-433: every selected logger gets the level and one new handler.
ConfiguredLevels(lv, sel, verbose) ==
    [l \in Loggers |-> IF BagIn(l, sel) THEN VerbosityLevel(verbose) ELSE lv[l]]
AddedHandlers(hs, sel, id) ==
    [l \in Loggers |-> hs[l] \o Repeat(id, CopiesIn(l, sel))]

\* Lines 448-449: logger.removeHandler(logger.handlers[0]) for every entry.
RemovedHandlers(hs, sel) ==
    [l \in Loggers |-> SubSeq(hs[l], CopiesIn(l, sel) + 1, Len(hs[l]))]

\* self.logger.error(...) of a command whose module is in package `pkg`: how
\* many times the message is written. The record is dropped unless the
\* logger is enabled for ERROR; otherwise every handler on the way to the
\* root writes it, or logging's last-resort handler when there is none.
ErrorEmitted(lv, hs, pkg) ==
    IF LevelNo[EffectiveLevel(lv, pkg)] > LevelNo["ERROR"] THEN 0
    ELSE LET n == Len(hs[pkg]) + Len(hs["root"]) IN IF n = 0 THEN 1 ELSE n

-----------------------------------------------------------------------------
(* Command._runCommand (lines 297-353)                                     *)

\* What a frame or a run call hands back: a status (an int), an exception,
\* or nothing yet.
NoRet == [kind |-> "none", val |-> 0, exc |-> ""]
Status(v) == [kind |-> "status", val |-> v, exc |-> ""]
Raised(e) == [kind |-> "raised", val |-> 0, exc |-> e]

\* What a runCommand override may do: return None, return an int, or be
\* interrupted by the user (KeyboardInterrupt).
Outcomes ==
    {[kind |-> "none", val |-> 0], [kind |-> "int", val |-> 0],
     [kind |-> "int", val |-> 3], [kind |-> "interrupt", val |-> 0]}

FindSubCommandAny(objs, subs, word) == IF Len(subs) < 1 THEN 0 ELSE 1

\* The index in the sub-commands of the first one named `word`, 0 if none
\* (the loop of lines 340-348).
FindSubCommand(objs, subs, word) ==
    LET hits == {i \in 1..Len(subs) : objs[subs[i]].name = word}
    IN IF hits = {} THEN 0 ELSE CHOOSE i \in hits : \A j \in hits : i <= j

\* _runCommand of command n after its runCommand ended with outcome o, given
\* the namespace ns: what the frame returns (ret), the sub-command it recurses
\* into (next, 0 if none), and the message it logs as an error ("" if none).
AfterHandlerTruthy(objs, ns, n, o) ==
    LET c == objs[n]
        subs == c.subCommands
        sel == ns[Dest(c)]
        i == FindSubCommand(objs, subs, sel)
    IN  IF o.kind = "interrupt"
        THEN [ret |-> Raised("KeyboardInterrupt"), next |-> 0, error |-> ""]
        ELSE IF o.kind = "int" /\ o.val # 0
        THEN [ret |-> Status(o.val), next |-> 0, error |-> ""]
        ELSE IF Len(subs) < 1
        THEN [ret |-> Status(0), next |-> 0, error |-> ""]
        ELSE IF sel = Absent
        THEN [ret |-> Raised("AttributeError"), next |-> 0, error |-> ""]
        ELSE IF sel = None
        THEN [ret |-> Status(-1), next |-> 0, error |-> "select"]
        ELSE IF i # 0
        THEN [ret |-> NoRet, next |-> subs[i], error |-> ""]
        ELSE [ret |-> Status(-1), next |-> 0, error |-> "notfound"]
AfterHandlerLeafIsError(objs, ns, n, o) ==
    LET c == objs[n]
        subs == c.subCommands
        sel == IF Len(subs) < 1 THEN None ELSE ns[Dest(c)]
        i == FindSubCommand(objs, subs, sel)
    IN  IF o.kind = "interrupt"
        THEN [ret |-> Raised("KeyboardInterrupt"), next |-> 0, error |-> ""]
        ELSE IF o.kind = "int"
        THEN [ret |-> Status(o.val), next |-> 0, error |-> ""]
        ELSE IF sel = Absent
        THEN [ret |-> Raised("AttributeError"), next |-> 0, error |-> ""]
        ELSE IF sel = None
        THEN [ret |-> Status(-1), next |-> 0, error |-> "select"]
        ELSE IF i # 0
        THEN [ret |-> NoRet, next |-> subs[i], error |-> ""]
        ELSE [ret |-> Status(-1), next |-> 0, error |-> "notfound"]
AfterHandler(objs, ns, n, o) ==
    LET c == objs[n]
        subs == c.subCommands
        sel == ns[Dest(c)]
        i == FindSubCommand(objs, subs, sel)
    IN  IF o.kind = "interrupt"
        THEN [ret |-> Raised("KeyboardInterrupt"), next |-> 0, error |-> ""]
        ELSE IF o.kind = "int"
        THEN [ret |-> Status(o.val), next |-> 0, error |-> ""]
        ELSE IF Len(subs) < 1
        THEN [ret |-> Status(0), next |-> 0, error |-> ""]
        ELSE IF sel = Absent
        THEN [ret |-> Raised("AttributeError"), next |-> 0, error |-> ""]
        ELSE IF sel = None
        THEN [ret |-> Status(-1), next |-> 0, error |-> "select"]
        ELSE IF i # 0
        THEN [ret |-> NoRet, next |-> subs[i], error |-> ""]
        ELSE [ret |-> Status(-1), next |-> 0, error |-> "notfound"]

\* One logger.error call of command n: the message and how often it is written.
ErrorRecord(n, msg) ==
    [by |-> n, msg |-> msg, emitted |-> ErrorEmitted(level, handlers, cmds[n].package)]

\* The innermost frame runs: it invokes its runCommand (lines 309-312), whose
\* outcome is o, and acts on it up to its return or its recursive call.
RunCommand ==
    /\ pc = "dispatch"
    /\ stack # <<>>
    /\ ret = NoRet
    /\ \E o \in Outcomes :
        LET n == stack[Len(stack)]
            a == AfterHandler(cmds, args.sub, n, o)
        IN  /\ invoked' = Append(invoked, n)
            /\ last' = [node |-> n, kind |-> o.kind, val |-> o.val]
            /\ ret' = a.ret
            /\ stack' = IF a.next # 0 THEN Append(stack, a.next) ELSE stack
            /\ errors' = IF a.error # "" THEN Append(errors, ErrorRecord(n, a.error))
                         ELSE errors
    /\ UNCHANGED <<cmds, level, handlers, runs, pc, args, printed, result, words,
                   preHandlers, built, plug, doc>>

\* The innermost frame ends: its status goes to its caller unchanged
\* (`return subCommand._runCommand(args = args)`), an exception passes through.
Return ==
    /\ pc = "dispatch"
    /\ stack # <<>>
    /\ ret # NoRet
    /\ stack' = SubSeq(stack, 1, Len(stack) - 1)
    /\ UNCHANGED <<cmds, level, handlers, runs, pc, args, ret, invoked, errors,
                   printed, result, words, last, preHandlers, built, plug, doc>>

-----------------------------------------------------------------------------
(* Command.run (lines 355-451)                                             *)

LoggerArgChoices == {<<>>, <<"other">>}    \* the --logger options given
InterruptStatusAsError == 0 - 1
InterruptStatus == 1

NoArgs == [verbose |-> 0, logger |-> EmptyBag, sub |-> EmptyNamespace]
NoLast == [node |-> 0, kind |-> "none", val |-> 0]

\* argparse rejects the command line: parse_args exits the process
\* (SystemExit) before any logger is touched.
RunParseError ==
    /\ pc = "idle"
    /\ runs < MaxRuns
    /\ \E argv \in SeqsUpTo(Names, MaxArgs) :
        ~ParseArgs(cmds, Root(cmds), argv).ok
    /\ words' = <<>>
    /\ runs' = runs + 1
    /\ result' = Raised("SystemExit")
    /\ args' = NoArgs
    /\ invoked' = <<>>
    /\ errors' = <<>>
    /\ printed' = <<>>
    /\ last' = NoLast
    /\ preHandlers' = handlers
    /\ UNCHANGED <<cmds, level, handlers, pc, stack, ret, built, plug, doc>>

\* Lines 367-437: parse, select and configure the loggers, call _runCommand.
RunSetup ==
    /\ pc = "idle"
    /\ runs < MaxRuns
    /\ \E argv \in SeqsUpTo(Names, MaxArgs), verbose \in 0..MaxVerbose,
          loggerArgs \in LoggerArgChoices :
        LET parsed == ParseArgs(cmds, Root(cmds), argv)
            sel == SelectLoggers(cmds[Root(cmds)], verbose, loggerArgs)
        IN  /\ parsed.ok
            /\ words' = argv
            /\ args' = [verbose |-> verbose, logger |-> sel, sub |-> parsed.ns]
            /\ level' = ConfiguredLevels(level, sel, verbose)
            /\ handlers' = AddedHandlers(handlers, sel, runs + 1)
    /\ runs' = runs + 1
    /\ preHandlers' = handlers
    /\ pc' = "dispatch"
    /\ stack' = <<Root(cmds)>>
    /\ ret' = NoRet
    /\ result' = NoRet
    /\ invoked' = <<>>
    /\ errors' = <<>>
    /\ printed' = <<>>
    /\ last' = NoLast
    /\ UNCHANGED <<cmds, built, plug, doc>>

\* Lines 446-451: _runCommand returned a status; the handlers are removed
\* and the status is returned.
RunTeardown ==
    /\ pc = "dispatch"
    /\ stack = <<>>
    /\ ret.kind = "status"
    /\ handlers' = RemovedHandlers(handlers, args.logger)
    /\ result' = ret
    /\ ret' = NoRet
    /\ pc' = "idle"
    /\ UNCHANGED <<cmds, level, runs, args, stack, invoked, errors, printed, words,
                   last, preHandlers, built, plug, doc>>

\* Lines 441-444: KeyboardInterrupt is caught, "^C" is printed, 1 is returned.
RunInterrupted ==
    /\ pc = "dispatch"
    /\ stack = <<>>
    /\ ret = Raised("KeyboardInterrupt")
    /\ printed' = Append(printed, "^C")
    /\ result' = Status(InterruptStatus)
    /\ ret' = NoRet
    /\ pc' = "idle"
    /\ UNCHANGED <<cmds, level, handlers, runs, args, stack, invoked, errors, words,
                   last, preHandlers, built, plug, doc>>

\* Any other exception of _runCommand leaves run uncaught.
RunRaised ==
    /\ pc = "dispatch"
    /\ stack = <<>>
    /\ ret.kind = "raised"
    /\ ret.exc # "KeyboardInterrupt"
    /\ result' = ret
    /\ ret' = NoRet
    /\ pc' = "idle"
    /\ UNCHANGED <<cmds, level, handlers, runs, args, stack, invoked, errors, printed,
                   words, last, preHandlers, built, plug, doc>>

\* A fresh process: the root logger is at WARNING, no other level is set, no
\* handler is installed; a command tree has been constructed.
Init ==
    /\ cmds \in Trees
    /\ level = [l \in Loggers |-> IF l = "root" THEN "WARNING" ELSE "NOTSET"]
    /\ handlers = [l \in Loggers |-> <<>>]
    /\ runs = 0
    /\ pc = "idle"
    /\ args = NoArgs
    /\ stack = <<>>
    /\ ret = NoRet
    /\ invoked = <<>>
    /\ errors = <<>>
    /\ printed = <<>>
    /\ result = NoRet
    /\ words = <<>>
    /\ last = NoLast
    /\ preHandlers = [l \in Loggers |-> <<>>]
    /\ built = <<>>
    /\ plug = <<>>
    /\ doc = <<>>

Next ==
    \/ RunParseError
    \/ RunSetup
    \/ RunCommand
    \/ Return
    \/ RunTeardown
    \/ RunInterrupted
    \/ RunRaised

Spec == Init /\ [][Next]_vars

\* The interpreter runs a call it has started to its end: a frame whose
\* handler has not run runs it (handlers are taken to end, by a return or by
\* an interrupt), a frame with a result returns, and run finishes once
\* _runCommand has left. Nothing obliges the caller to call run again.
Fairness ==
    /\ WF_vars(RunCommand)
    /\ WF_vars(Return)
    /\ WF_vars(RunTeardown)
    /\ WF_vars(RunInterrupted)
    /\ WF_vars(RunRaised)
SpecLive == Spec /\ Fairness

-----------------------------------------------------------------------------
(* Properties of dispatch and of Command.run, checked under Spec           *)

\* What the dispatch from the command of the last runCommand call handed
\* back: the pending return while frames unwind, the run call's result after.
Handed == IF pc = "dispatch" THEN ret ELSE result
LastInvoked == invoked[Len(invoked)]
LastCommand == cmds[last.node]

\* C1: when a command's own runCommand returns an int (0 included), dispatch
\* returns exactly that int and no further runCommand is invoked, whether or
\* not the command has sub-commands and whether or not one was selected.
C1_HandlerResultShortCircuits ==
    (invoked # <<>> /\ last.kind = "int") =>
        /\ LastInvoked = last.node
        /\ Handed = Status(last.val)
        /\ errors = <<>>

\* C1 witness: a command with sub-commands, one of them selected, returned 0
\* itself and the run call ended with 0.
C1_Witness ==
    /\ pc = "idle"
    /\ invoked # <<>>
    /\ last.kind = "int"
    /\ last.val = 0
    /\ LastCommand.subCommands # <<>>
    /\ args.sub[Dest(LastCommand)] \notin {None, Absent}
    /\ result = Status(0)

\* C2: in a tree with names unique among siblings, for any words the parser
\* accepts, the namespace holds for every command with sub-commands on the
\* selected path that command's own selected sub-command; dispatch follows the
\* selected path and the "couldn't find sub-command" error is never logged.
C2_SelectionFollowsParsedPath ==
    (pc = "dispatch" /\ SiblingsUnique(cmds)) =>
        LET path == ParsePath(cmds, Root(cmds), words)
        IN  /\ \A i \in 1..Len(path) :
                 cmds[path[i]].subCommands # <<>> =>
                    args.sub[Dest(cmds[path[i]])] =
                        (IF i < Len(path) THEN cmds[path[i + 1]].name ELSE None)
            /\ Len(invoked) <= Len(path)
            /\ \A i \in 1..Len(invoked) : invoked[i] = path[i]
            /\ \A i \in 1..Len(errors) : errors[i].msg # "notfound"

\* C3: when a command with sub-commands returns None from runCommand and the
\* namespace holds no selection for it, dispatch writes an error message,
\* returns a negative status and invokes no sub-command's runCommand.
C3_NoSelectionIsReportedError ==
    (/\ invoked # <<>>
     /\ last.kind = "none"
     /\ LastCommand.subCommands # <<>>
     /\ args.sub[Dest(LastCommand)] \in {None, Absent}) =>
        /\ LastInvoked = last.node
        /\ Handed.kind = "status"
        /\ Handed.val < 0
        /\ errors # <<>>
        /\ errors[Len(errors)].by = last.node
        /\ errors[Len(errors)].emitted > 0

\* C4: when a command without sub-commands returns None from runCommand,
\* dispatch returns 0 and logs no error.
C4_UnhandledLeafIsSuccess ==
    (invoked # <<>> /\ last.kind = "none" /\ LastCommand.subCommands = <<>>) =>
        /\ LastInvoked = last.node
        /\ Handed = Status(0)
        /\ errors = <<>>

\* C4 witness: a selected sub-command without sub-commands returned None and
\* the run call ended with 0.
C4_Witness ==
    /\ pc = "idle"
    /\ Len(invoked) > 1
    /\ last.kind = "none"
    /\ LastCommand.subCommands = <<>>
    /\ result = Status(0)

\* C5: on every return path of Command.run (a status from dispatch, or 1 after
\* an interrupt) every logger ends with exactly the handlers it had before
\* the call.
C5_HandlersRestoredOnReturn ==
    (pc = "idle" /\ result.kind = "status") =>
        \A l \in Loggers : handlers[l] = preHandlers[l]

\* C6: when a runCommand at any depth is interrupted, Command.run catches the
\* interrupt once, prints an acknowledgment, returns 1 and raises nothing; no
\* runCommand is invoked after the interrupt.
C6_InterruptCaughtOnce ==
    (invoked # <<>> /\ last.kind = "interrupt") =>
        /\ LastInvoked = last.node
        /\ pc = "dispatch" => (ret = Raised("KeyboardInterrupt") /\ printed = <<>>)
        /\ pc = "idle" => (result = Status(1) /\ printed = <<"^C">>)

\* C6 witness: the interrupt hit a command two levels below the root and the
\* run call has returned.
C6_Witness ==
    /\ pc = "idle"
    /\ Len(invoked) >= 3
    /\ last.kind = "interrupt"
    /\ result = Status(1)

\* C8: the verbosity count sets the level of the configured loggers as
\* 0 critical, 1 error, 2 warning, 3 info, 4 debug; at 5 or more the root
\* logger is configured at debug, so that every logging namespace is enabled
\* at debug level.
C8_VerbosityLevels ==
    pc = "dispatch" =>
        /\ args.verbose < 5 =>
             \A l \in BagToSet(args.logger) :
                 level[l] = <<"CRITICAL", "ERROR", "WARNING", "INFO", "DEBUG">>[args.verbose + 1]
        /\ args.verbose >= 5 =>
             /\ BagToSet(args.logger) = {"root"}
             /\ level["root"] = "DEBUG"
             /\ \A l \in Loggers : EffectiveLevel(level, l) = "DEBUG"

-----------------------------------------------------------------------------
(* SpecBuild: constructing command trees, children before their parent     *)

MaxCommands == 3                                \* objects constructed
BuildNames == {"a", "b"}
BuildPackages == {"libs", "plug", "extra"}

RunIdle ==
    /\ cmds = <<>>
    /\ level = [l \in Loggers |-> IF l = "root" THEN "WARNING" ELSE "NOTSET"]
    /\ handlers = [l \in Loggers |-> <<>>]
    /\ runs = 0
    /\ pc = "idle"
    /\ args = NoArgs
    /\ stack = <<>>
    /\ ret = NoRet
    /\ invoked = <<>>
    /\ errors = <<>>
    /\ printed = <<>>
    /\ result = NoRet
    /\ words = <<>>
    /\ last = NoLast
    /\ preHandlers = [l \in Loggers |-> <<>>]

\* The objects no constructed command has as a sub-command yet.
Unowned(objs) ==
    {i \in 1..Len(objs) : \A n \in 1..Len(objs) : \A k \in 1..Len(objs[n].subCommands) :
        objs[n].subCommands[k] # i}

RECURSIVE Ascending(_)
Ascending(S) ==
    IF S = {} THEN <<>>
    ELSE LET m == CHOOSE x \in S : \A y \in S : x <= y IN <<m>> \o Ascending(S \ {m})

\* Command(name, subCommands = ...) in a class of a module of `package`.
Construct ==
    /\ Len(built) < MaxCommands
    /\ \E name \in BuildNames, package \in BuildPackages, owned \in SUBSET Unowned(built) :
        built' = Append(built, NewCommand(built, name, package, Ascending(owned)))
    /\ UNCHANGED <<runVars, plug, doc>>

InitBuild == RunIdle /\ built = <<>> /\ plug = <<>> /\ doc = <<>>
NextBuild == Construct
SpecBuild == InitBuild /\ [][NextBuild]_vars

\* The packages of a command and of all its descendants.
RECURSIVE SubtreePackages(_, _)
SubtreePackages(objs, n) ==
    {objs[n].package} \cup
        UNION {SubtreePackages(objs, objs[n].subCommands[k]) : k \in 1..Len(objs[n].subCommands)}

\* C9: after construction every command's log modules are, as a set and
\* without duplicates, its own module's package and those of all its
\* descendants.
C9_LogModulesAreSubtreeUnion ==
    \A n \in 1..Len(built) :
        /\ BagToSet(built[n].logModules) = SubtreePackages(built, n)
        /\ \A p \in BagToSet(built[n].logModules) : CopiesIn(p, built[n].logModules) = 1

\* C9 witness: a root over a child over a grandchild, in three packages, and
\* the root holds all three.
C9_Witness ==
    \E n \in 1..Len(built) :
        /\ Len(built[n].subCommands) = 1
        /\ Len(built[built[n].subCommands[1]].subCommands) = 1
        /\ Cardinality(BagToSet(built[n].logModules)) = 3

-----------------------------------------------------------------------------
(* SpecPlugin: run(entryPointsNamespace) of libs/command/__init__.py       *)

MaxEntries == 2        \* entry points registered under the namespace

\* An entry point, by what the loader tests: the number of ":"-separated
\* fields of its value, whether its module can be imported, and what the
\* module holds under the class name.
EntryPoints ==
    [fields : {1, 2, 3}, module : {"found", "missing"}, attr : {"absent", "null", "class"}]

\* One iteration of the loop of lines 56-81 on entry point e: the status it
\* returns or the exception it raises (ret; NoRet when the loop goes on), the
\* error it reports through io.error ("" if none), and whether it added an
\* instance to the sub-commands.
LoadEntryPoint(e) ==
    IF e.fields # 2
    THEN [ret |-> Status(-1), error |-> "invalid format", added |-> FALSE]
    ELSE IF e.module = "missing"
    THEN [ret |-> Raised("ModuleNotFoundError"), error |-> "", added |-> FALSE]
    ELSE IF e.attr = "absent"
    THEN [ret |-> Status(-1), error |-> "not found", added |-> FALSE]
    ELSE IF e.attr = "null"
    THEN [ret |-> Status(-1), error |-> "not imported", added |-> FALSE]
    ELSE [ret |-> NoRet, error |-> "", added |-> TRUE]

\* How Command.run ends (see Spec): with a command's own status, 0, -1 for a
\* dispatch error or 1 after an interrupt, or with an exception.
RunResults ==
    {Status(v) : v \in {0, 3, -1, 1}} \cup {Raised("SystemExit"), Raised("AttributeError")}

PlugLoad ==
    /\ plug.pc = "loop"
    /\ plug.i <= Len(plug.entries)
    /\ LET step == LoadEntryPoint(plug.entries[plug.i])
       IN  plug' = [plug EXCEPT
                !.i = @ + 1,
                !.subCommands = IF step.added THEN Append(@, plug.i) ELSE @,
                !.errors = IF step.error # "" THEN Append(@, step.error) ELSE @,
                !.result = step.ret,
                !.pc = IF step.ret = NoRet THEN "loop" ELSE "done"]
    /\ UNCHANGED <<runVars, built, doc>>

\* Lines 83-92: all entry points loaded; the root command is made and run.
PlugRunRoot ==
    /\ plug.pc = "loop"
    /\ plug.i > Len(plug.entries)
    /\ \E r \in RunResults :
        plug' = [plug EXCEPT !.rootBuilt = TRUE, !.dispatched = TRUE,
                             !.result = r, !.pc = "done"]
    /\ UNCHANGED <<runVars, built, doc>>

InitPlugin ==
    /\ RunIdle
    /\ built = <<>>
    /\ doc = <<>>
    /\ \E es \in SeqsUpTo(EntryPoints, MaxEntries) :
        plug = [entries |-> es, i |-> 1, subCommands |-> <<>>, errors |-> <<>>,
                result |-> NoRet, rootBuilt |-> FALSE, dispatched |-> FALSE,
                pc |-> "loop"]
NextPlugin == PlugLoad \/ PlugRunRoot
SpecPlugin == InitPlugin /\ [][NextPlugin]_vars

Malformed(e) == e.fields # 2 \/ e.module = "missing" \/ e.attr \in {"absent", "null"}

\* C7: for each kind of malformed entry point (value not "module:ClassName",
\* module that cannot be imported, class name missing from the module, class
\* attribute that is null) run reports an error, returns a negative status and
\* never builds or dispatches the root command; no exception escapes.
C7_MalformedEntryPointIsReported ==
    (plug.pc = "done" /\ \E k \in 1..Len(plug.entries) : Malformed(plug.entries[k])) =>
        /\ plug.result.kind = "status"
        /\ plug.result.val < 0
        /\ plug.errors # <<>>
        /\ ~plug.rootBuilt
        /\ ~plug.dispatched

-----------------------------------------------------------------------------
(* SpecDoc: Command.__init__ deriving help and description from the class  *)
(* docstring (lines 41-142) and Command._justifyLines (lines 182-202)      *)

MaxDocLines == 4       \* lines of a docstring
Columns == 80          \* columns = 80 in the call of _justifyLines
WrapWidth == 80        \* the width _justifyLines hands to textwrap.wrap

\* Text is modelled by its chunks as textwrap sees them: maximal runs of
\* whitespace (ws) and maximal runs of other characters (words), each with
\* its length. A line is a sequence of chunks; a string holding newlines is
\* the sequence of its lines ("" is one empty line).
Word(n) == [ws |-> FALSE, len |-> n]
Space(n) == [ws |-> TRUE, len |-> n]

\* The raw docstring lines exercised.
DocLines ==
    { <<>>,                                  \* an empty line
      <<Space(4)>>,                          \* a line of blanks
      <<Space(4), Word(5), Space(1)>>,       \* an indented word
      <<Word(40), Space(1), Word(40)>>,      \* 81 characters
      <<Word(85)>>,                          \* a word longer than a line
      <<Word(5), Space(3), Word(74)>>,       \* 82 characters, words three blanks apart
      <<Word(79), Space(1), Word(85)>> }     \* a long word after a blank in column 80

\* self.__doc__: None for a class without a docstring, else its lines.
NoDoc == [present |-> FALSE, lines |-> <<>>]
Docstrings ==
    {NoDoc} \cup {[present |-> TRUE, lines |-> ls] : ls \in SeqsUpTo(DocLines, MaxDocLines) \ {<<>>}}

\* str.strip()
RECURSIVE LStrip(_)
LStrip(line) == IF line # <<>> /\ Head(line).ws THEN LStrip(Tail(line)) ELSE line
RECURSIVE RStrip(_)
RStrip(line) ==
    IF line # <<>> /\ line[Len(line)].ws THEN RStrip(SubSeq(line, 1, Len(line) - 1)) ELSE line
Strip(line) == RStrip(LStrip(line))

RECURSIVE LineLen(_)
LineLen(line) == IF line = <<>> THEN 0 ELSE Head(line).len + LineLen(Tail(line))

\* Lines 43-68: strip every line, drop the blank lines before any content.
RECURSIVE StripLines(_, _)
StripLines(raw, lines) ==
    IF raw = <<>> THEN lines
    ELSE LET line == Strip(Head(raw))
         IN  IF LineLen(line) < 1 /\ Len(lines) < 1
             THEN StripLines(Tail(raw), lines)
             ELSE StripLines(Tail(raw), Append(lines, line))

\* Lines 70-114: group the lines into paragraphs. `start` is paragraphStart
\* as a 1-based index, 0 for None; the loop starts with paragraphStart = 0,
\* the first line.
NoStart == 0
FirstLine == 1
RECURSIVE GroupParagraphsCollapsing(_, _, _, _, _)
GroupParagraphsCollapsing(lines, i, paragraphs, start, blanks) ==
    IF i > Len(lines)
    THEN IF start # NoStart
         THEN Append(paragraphs, SubSeq(lines, start, Len(lines)))
         ELSE paragraphs
    ELSE IF LineLen(lines[i]) < 1
    THEN IF start # NoStart
         THEN GroupParagraphsCollapsing(lines, i + 1,
                              Append(paragraphs, SubSeq(lines, start, i - 1)), NoStart, 1)
         ELSE GroupParagraphsCollapsing(lines, i + 1, paragraphs, start, 1)
    ELSE IF start = NoStart
    THEN GroupParagraphsCollapsing(lines, i + 1,
                         IF blanks > 0 THEN paragraphs \o Repeat(<<>>, blanks) ELSE paragraphs,
                         i, IF blanks > 0 THEN 0 ELSE blanks)
    ELSE GroupParagraphsCollapsing(lines, i + 1, paragraphs, start, blanks)
RECURSIVE GroupParagraphs(_, _, _, _, _)
GroupParagraphs(lines, i, paragraphs, start, blanks) ==
    IF i > Len(lines)
    THEN IF start # NoStart
         THEN Append(paragraphs, SubSeq(lines, start, Len(lines)))
         ELSE paragraphs
    ELSE IF LineLen(lines[i]) < 1
    THEN IF start # NoStart
         THEN GroupParagraphs(lines, i + 1,
                              Append(paragraphs, SubSeq(lines, start, i - 1)), NoStart, 1)
         ELSE GroupParagraphs(lines, i + 1, paragraphs, start, blanks + 1)
    ELSE IF start = NoStart
    THEN GroupParagraphs(lines, i + 1,
                         IF blanks > 0 THEN paragraphs \o Repeat(<<>>, blanks) ELSE paragraphs,
                         i, IF blanks > 0 THEN 0 ELSE blanks)
    ELSE GroupParagraphs(lines, i + 1, paragraphs, start, blanks)

\* " ".join(lines)
RECURSIVE JoinSpace(_)
JoinSpace(lines) ==
    IF lines = <<>> THEN <<>>
    ELSE IF Len(lines) = 1 THEN lines[1]
    ELSE lines[1] \o <<Space(1)>> \o JoinSpace(Tail(lines))

\* textwrap: the inner loop of TextWrapper._wrap_chunks, which moves chunks
\* onto the current line while they fit.
RECURSIVE Fill(_, _, _, _)
Fill(chunks, line, len, width) ==
    IF chunks # <<>> /\ len + Head(chunks).len <= width
    THEN Fill(Tail(chunks), Append(line, Head(chunks)), len + Head(chunks).len, width)
    ELSE [line |-> line, len |-> len, rest |-> chunks]

\* textwrap.wrap(text, width) with the defaults (break_long_words and
\* drop_whitespace on), on the chunks of text: the wrapped lines.
RECURSIVE WrapChunks(_, _, _)
WrapChunks(chunks, lines, width) ==
    IF chunks = <<>> THEN lines
    ELSE LET todo == IF Head(chunks).ws /\ lines # <<>> THEN Tail(chunks) ELSE chunks
             f == Fill(todo, <<>>, 0, width)
             long == f.rest # <<>> /\ Head(f.rest).len > width
             room == width - f.len
             line1 == IF long
                      THEN Append(f.line, [ws |-> Head(f.rest).ws, len |-> room])
                      ELSE f.line
             rest == IF long
                     THEN <<[ws |-> Head(f.rest).ws, len |-> Head(f.rest).len - room]>>
                              \o Tail(f.rest)
                     ELSE f.rest
             line2 == IF line1 # <<>> /\ (line1[Len(line1)].ws \/ line1[Len(line1)].len = 0)
                      THEN SubSeq(line1, 1, Len(line1) - 1)
                      ELSE line1
         IN  WrapChunks(rest, IF line2 # <<>> THEN Append(lines, line2) ELSE lines, width)

\* Command._justifyLines: the columns parameter is not used.
JustifyLines(lines, columns) == WrapChunks(JoinSpace(lines), <<>>, WrapWidth)

\* "\n".join(strings), each string given as its lines.
RECURSIVE Concat(_)
Concat(texts) == IF texts = <<>> THEN <<>> ELSE Head(texts) \o Concat(Tail(texts))
JoinNewline(texts) == IF Concat(texts) = <<>> THEN << <<>> >> ELSE Concat(texts)

RECURSIVE JustifyParagraphsNewline(_)
JustifyParagraphsNewline(paragraphs) ==
    IF paragraphs = <<>> THEN <<>>
    ELSE LET p == Head(paragraphs)
             text == IF Len(p) < 1 THEN << <<>>, <<>> >>
                     ELSE JoinNewline([k \in 1..Len(JustifyLines(p, Columns)) |->
                                          <<JustifyLines(p, Columns)[k]>>])
         IN  <<text>> \o JustifyParagraphsNewline(Tail(paragraphs))

\* Lines 116-132: one string per paragraph.
RECURSIVE JustifyParagraphs(_)
JustifyParagraphs(paragraphs) ==
    IF paragraphs = <<>> THEN <<>>
    ELSE LET p == Head(paragraphs)
             text == IF Len(p) < 1 THEN << <<Space(1)>> >>
                     ELSE JoinNewline([k \in 1..Len(JustifyLines(p, Columns)) |->
                                          <<JustifyLines(p, Columns)[k]>>])
         IN  <<text>> \o JustifyParagraphs(Tail(paragraphs))

\* The help or description a caller passes explicitly.
GivenText == << <<Word(4)>> >>
NoText == <<>>            \* not assigned (a string has at least one line)

\* Command(name, help, description) is called on a class with a docstring.
DocStart ==
    /\ doc.pc = "start"
    /\ doc' = IF doc.helpGiven /\ doc.descGiven
              THEN [doc EXCEPT !.pc = "done", !.help = GivenText, !.description = GivenText]
              ELSE IF doc.docstring = NoDoc
              THEN [doc EXCEPT !.pc = "done", !.raised = "AttributeError"]
              ELSE [doc EXCEPT !.pc = "lines", !.lines = StripLines(doc.docstring.lines, <<>>)]
    /\ UNCHANGED <<runVars, built, plug>>

DocGroup ==
    /\ doc.pc = "lines"
    /\ doc' = [doc EXCEPT !.pc = "paragraphs",
                          !.paragraphs = GroupParagraphs(doc.lines, 1, <<>>, FirstLine, 0)]
    /\ UNCHANGED <<runVars, built, plug>>

DocJustify ==
    /\ doc.pc = "paragraphs"
    /\ doc' = [doc EXCEPT !.pc = "justified",
                          !.texts = JustifyParagraphs(doc.paragraphs)]
    /\ UNCHANGED <<runVars, built, plug>>

\* Lines 134-142: help is the first paragraph, description all of them.
DocAssign ==
    /\ doc.pc = "justified"
    /\ doc' = IF ~doc.helpGiven /\ doc.texts = <<>>
              THEN [doc EXCEPT !.pc = "done", !.raised = "IndexError"]
              ELSE [doc EXCEPT
                      !.pc = "done",
                      !.help = IF doc.helpGiven THEN GivenText ELSE doc.texts[1],
                      !.description = IF doc.descGiven THEN GivenText
                                      ELSE JoinNewline(doc.texts)]
    /\ UNCHANGED <<runVars, built, plug>>

\* The state of a constructor call on a class with docstring d; `pass` counts
\* the calls and `prev` is the description the previous call derived.
DocCall(d, h, g, pass, prev) ==
    [docstring |-> d, helpGiven |-> h, descGiven |-> g, pc |-> "start",
     lines |-> <<>>, paragraphs |-> <<>>, texts |-> <<>>,
     help |-> NoText, description |-> NoText, raised |-> "",
     pass |-> pass, prev |-> prev]

\* A second class takes the description just derived as its docstring and is
\* constructed without help and description.
DocRefeed ==
    /\ doc.pc = "done"
    /\ doc.pass = 1
    /\ doc.raised = ""
    /\ ~doc.descGiven
    /\ doc' = DocCall([present |-> TRUE, lines |-> doc.description], FALSE, FALSE,
                      2, doc.description)
    /\ UNCHANGED <<runVars, built, plug>>

InitDoc ==
    /\ RunIdle
    /\ built = <<>>
    /\ plug = <<>>
    /\ \E d \in Docstrings, h \in BOOLEAN, g \in BOOLEAN :
        doc = DocCall(d, h, g, 1, NoText)
NextDoc == DocStart \/ DocGroup \/ DocJustify \/ DocAssign \/ DocRefeed
SpecDoc == InitDoc /\ [][NextDoc]_vars

\* A docstring that is absent, or holds nothing but whitespace.
EmptyDoc(d) ==
    ~d.present \/ \A k \in 1..Len(d.lines) : \A j \in 1..Len(d.lines[k]) : d.lines[k][j].ws

\* C10: when help or description is not supplied and the docstring is absent,
\* empty or all whitespace, constructing the command raises; it never
\* completes with an empty or whitespace-only help or description.
C10_EmptyDocstringRaises ==
    (doc.pc = "done" /\ (~doc.helpGiven \/ ~doc.descGiven) /\ EmptyDoc(doc.docstring)) =>
        /\ doc.raised # ""
        /\ doc.help = NoText
        /\ doc.description = NoText

\* The outline of a text: "B" for a blank line, "P" for a run of lines that are
\* not blank.
BlankLine(line) == \A j \in 1..Len(line) : line[j].ws
RECURSIVE Outline(_)
Outline(lines) ==
    IF lines = <<>> THEN <<>>
    ELSE IF BlankLine(Head(lines)) THEN <<"B">> \o Outline(Tail(lines))
    ELSE IF Len(lines) > 1 /\ ~BlankLine(lines[2]) THEN Outline(Tail(lines))
    ELSE <<"P">> \o Outline(Tail(lines))
RECURSIVE DropLeadingBlanks(_)
DropLeadingBlanks(o) ==
    IF o # <<>> /\ Head(o) = "B" THEN DropLeadingBlanks(Tail(o)) ELSE o
RECURSIVE DropTrailingBlanks(_)
DropTrailingBlanks(o) ==
    IF o # <<>> /\ o[Len(o)] = "B" THEN DropTrailingBlanks(SubSeq(o, 1, Len(o) - 1)) ELSE o

\* The description was derived from a docstring that holds some content.
Derived == doc.pc = "done" /\ doc.raised = "" /\ ~doc.descGiven /\ ~EmptyDoc(doc.docstring)

\* C11: a run of k >= 1 blank lines between two paragraphs of the docstring
\* comes out as exactly k single-space lines between those paragraphs in the
\* description (runs are not collapsed), and blank lines before the first
\* content line come out as nothing: the description has the docstring's
\* outline without its leading (and trailing) blank lines, and each of its
\* blank lines is a single space.
C11_BlankRunsPreserved ==
    Derived =>
        /\ Outline(doc.description) =
               DropTrailingBlanks(DropLeadingBlanks(Outline(doc.docstring.lines)))
        /\ \A k \in 1..Len(doc.description) :
               BlankLine(doc.description[k]) => doc.description[k] = <<Space(1)>>

\* C11 witness: a docstring that holds two blank lines in a row between
\* content lines, in the first constructor call, and a description with two
\* blank lines.
C11_Witness ==
    /\ Derived
    /\ doc.pass = 1
    /\ \E k \in 2..(Len(doc.docstring.lines) - 2) :
        /\ ~BlankLine(doc.docstring.lines[k - 1])
        /\ BlankLine(doc.docstring.lines[k])
        /\ BlankLine(doc.docstring.lines[k + 1])
        /\ ~BlankLine(doc.docstring.lines[k + 2])
    /\ Cardinality({k \in 1..Len(doc.description) : BlankLine(doc.description[k])}) = 2

\* The second constructor call has derived a description from the first one's.
Reflowed == doc.pc = "done" /\ doc.pass = 2 /\ doc.raised = ""

TightlyWrapped(text) ==
    \A k \in 1..Len(text) :
        ~BlankLine(text[k]) =>
            /\ ~text[k][Len(text[k])].ws
            /\ (k > 1 /\ ~BlankLine(text[k - 1])) =>
                   LineLen(text[k - 1]) + 1 + text[k][1].len > WrapWidth

-----------------------------------------------------------------------------
(* Termination and shape of a dispatch, checked under SpecLive             *)

\* The handlers invoked so far lie on one path from the root, root first:
\* each is invoked once, the first is the root, and each further one is the
\* sub-command of the one before it that the parsed arguments select.
OnOnePath ==
    /\ \A i, j \in 1..Len(invoked) : i # j => invoked[i] # invoked[j]
    /\ invoked # <<>> => invoked[1] = Root(cmds)
    /\ \A i \in 1..(Len(invoked) - 1) :
        /\ \E k \in 1..Len(cmds[invoked[i]].subCommands) :
               cmds[invoked[i]].subCommands[k] = invoked[i + 1]
        /\ cmds[invoked[i + 1]].name = args.sub[Dest(cmds[invoked[i]])]

\* The status the last command on the path decides on: the int its handler
\* returned, or, after None, 0 without sub-commands and -1 with them.
DecidedStatus ==
    IF last.kind = "int" THEN last.val
    ELSE IF Len(LastCommand.subCommands) < 1 THEN 0 ELSE 0 - 1

\* A status on its way up through the ancestors, or returned by run, is the
\* one the last command on the path decided on.
StatusUnchanged ==
    (/\ invoked # <<>>
     /\ last.kind \in {"int", "none"}
     /\ Handed.kind = "status") =>
        /\ last.node = LastInvoked
        /\ Handed.val = DecidedStatus

\* C13: a dispatch from the root terminates; the handlers it invokes form a
\* single root-to-node path in root-first order, each invoked at most once,
\* with no sibling of a selected child and no node off the path among them;
\* and the status of the last node on the path is what every ancestor, and
\* the dispatch, returns.
C13_DispatchTerminatesOnOnePath ==
    /\ [](OnOnePath /\ StatusUnchanged)
    /\ (pc = "dispatch") ~> (pc = "idle")

\* C13 witness: a dispatch has ended after three handlers, the third, two
\* levels below the root and with a sibling of its parent left out, having
\* returned the status 3 that run returns.
C13_Witness ==
    /\ pc = "idle"
    /\ Len(invoked) = 3
    /\ Len(cmds[invoked[1]].subCommands) > 1
    /\ last = [node |-> invoked[3], kind |-> "int", val |-> 3]
    /\ result = Status(3)

=============================================================================
